---- MODULE Spec2Model ----
(***************************************************************************)
(* Model of qualibration_libs/plotting/standard_plotter.py: the two figure *)
(* builders create_plotly_figure and create_matplotlib_figure, run cell by *)
(* cell over the qubit grid.                                               *)
(*                                                                         *)
(* A dataset slice is the set of field names present in it; the values of  *)
(* a field are abstracted to the token <<kind, qubit, field>>, so that a   *)
(* drawn primitive records which dataset its data came from.               *)
(***************************************************************************)
EXTENDS Integers, Sequences, FiniteSets, TLC

VARIABLES
    ds_raw,        \* raw dataset: per qubit, the set of fields of its slice
    ds_fit,        \* fit dataset, or absent (Python's None)
    qubits,        \* the qubit list (their ids)
    layout_in,     \* what the grid layout provider answers for (ds_raw, qubits)
    plot_configs,  \* the list of PlotConfig
    builder,       \* "none" | "plotly" | "matplotlib"
    pc,            \* "idle" | "loop" | "done" | "raised"
    config,        \* <<plot_configs[0]>> once read, else << >>
    grid,          \* <<the grid object>> once constructed, else << >>
    i,             \* index of the next grid cell
    fig,           \* <<the figure>> under construction / returned, else << >>
    err,           \* the exception that ended the call, else NoError
    n_sel          \* number of ds.sel(qubit=...) calls made so far

vars == <<ds_raw, ds_fit, qubits, layout_in, plot_configs, builder, pc,
          config, grid, i, fig, err, n_sel>>

inputs == <<ds_raw, ds_fit, qubits, layout_in, plot_configs>>

----------------------------------------------------------------------------
(* Bounds of the model *)

MaxQubits == 2
MaxRows == 2
MaxCols == 3
MaxLegendQubits == 3

(* Python's None, and a key that a style dict does not hold *)
None == "None"
Absent == "<absent>"
NoError == "no error"

----------------------------------------------------------------------------
(* Data model: TraceConfig, LayoutConfig, PlotConfig *)

PlotTypes == {"scatter", "heatmap", "line"}

DefaultMode == "lines+markers"

EmptyStyle == [color |-> Absent, dash |-> Absent]

TraceConfig(plot_type, z_source, name, style, custom_data_sources, visible) ==
    [plot_type |-> plot_type, x_source |-> "x", y_source |-> "y",
     z_source |-> z_source, name |-> name, mode |-> DefaultMode,
     style |-> style, hover_template |-> None,
     custom_data_sources |-> custom_data_sources, visible |-> visible]

LayoutConfig(title) ==
    [title |-> title, x_axis_title |-> <<"xlabel", title>>,
     y_axis_title |-> <<"ylabel", title>>, legend |-> <<"legend", title>>]

PlotConfig(layout, traces, fit_traces) ==
    [layout |-> layout, traces |-> traces, fit_traces |-> fit_traces]

----------------------------------------------------------------------------
(* Datasets.  A dataset is [present, qubit_coord, slices]: absent stands    *)
(* for None, qubit_coord says whether it can be indexed by qubit, and       *)
(* slices[q] is the set of fields of qubit q's slice.                       *)

Fields == {"x", "y", "z", "c"}

Dataset(slices) == [present |-> TRUE, qubit_coord |-> TRUE, slices |-> slices]
NoDataset == [present |-> FALSE, qubit_coord |-> FALSE, slices |-> << >>]
DatasetWithoutQubit ==
    [present |-> TRUE, qubit_coord |-> FALSE, slices |-> << >>]

(* ds.sel(qubit=qubit_id) if ds is not None else None *)
Sel(ds, kind, qubit_id) ==
    IF ds.present
    THEN [present |-> TRUE, kind |-> kind, qubit |-> qubit_id,
          fields |-> ds.slices[qubit_id]]
    ELSE [present |-> FALSE, kind |-> kind, qubit |-> qubit_id, fields |-> {}]

(* ds.sel raises when the dataset has no such qubit *)
SelRaises(ds, qubit_id) ==
    ds.present /\ (~ds.qubit_coord \/ qubit_id \notin DOMAIN ds.slices)

(* source in ds_source *)
Contains(slice, source) == source \in slice.fields

(* ds_source[source].values *)
Values(slice, source) == <<slice.kind, slice.qubit, source>>

(* bool(ds_qubit_fit): None and a dataset without data variables are falsy *)
Truthy(slice) == slice.present /\ slice.fields # {}

----------------------------------------------------------------------------
(* Grid layout provider (PlotlyQubitGrid / QubitGrid and their iterators). *)
(* layout_in is its answer: n_rows, n_cols and name_dicts, the qubit ids   *)
(* in row-major panel order; ok = FALSE when it cannot lay the qubits out. *)

(* plotly_grid_iter(grid): the pairs (i, name_dict), i from 0 *)
plotly_grid_iter(g) == [k \in 1..Len(g.name_dicts) |-> <<k - 1, g.name_dicts[k]>>]

(* grid_iter(grid): the pairs (ax, name_dict); ax is the k-th axes *)
grid_iter(g) == [k \in 1..Len(g.name_dicts) |-> <<k, g.name_dicts[k]>>]

----------------------------------------------------------------------------
(* create_plotly_figure: the per-trace steps of the inner loop *)

(* The guard written as `plot_configs is None`: false for an empty list *)
PlotConfigsIsNone(cfgs) == FALSE

(* not plot_configs *)
NotPlotConfigs(cfgs) == cfgs = << >>

(* plot_configs[-1]: the last configuration instead of the first *)
LastConfig(cfgs) == IF Len(cfgs) >= 1 THEN <<cfgs[Len(cfgs)]>> ELSE << >>

(* plot_configs[0]: << >> stands for the IndexError of an empty list *)
FirstConfig(cfgs) == IF Len(cfgs) >= 1 THEN <<cfgs[1]>> ELSE << >>

(* config.traces + config.fit_traces *)
AllTraces(cfg) == cfg.traces \o cfg.fit_traces

(* trace_config in config.fit_traces: list membership by value equality *)
IsFitTrace(trace_config, cfg) ==
    \E j \in 1..Len(cfg.fit_traces) : cfg.fit_traces[j] = trace_config

(* ds_source = ds_qubit_fit if is_fit_trace else ds_qubit_raw *)
DsSource(trace_config, cfg, ds_qubit_raw, ds_qubit_fit) ==
    IF IsFitTrace(trace_config, cfg) THEN ds_qubit_fit ELSE ds_qubit_raw

(* required_sources: x_source, y_source, and z_source when it is truthy *)
RequiredSources(trace_config) ==
    <<trace_config.x_source, trace_config.y_source>> \o
    (IF trace_config.z_source # None THEN <<trace_config.z_source>> ELSE << >>)

(* all(source in ds_source for source in sources) *)
AllIn(sources, slice) ==
    \A k \in 1..Len(sources) : Contains(slice, sources[k])

(* The trace is skipped: invisible, no source dataset, or a required field missing *)
PlotlySkips(trace_config, ds_source) ==
    \/ ~trace_config.visible
    \/ ~ds_source.present
    \/ ~AllIn(RequiredSources(trace_config), ds_source)

(* np.stack([ds_source[src].values for src in custom_data_sources]) or None *)
CustomData(trace_config, ds_source) ==
    [k \in 1..Len(trace_config.custom_data_sources) |->
        Values(ds_source, trace_config.custom_data_sources[k])]

(* The KeyError of ds_source[src] for a missing field, else NoError *)
PlotlyTraceError(trace_config, ds_source) ==
    IF ~AllIn(trace_config.custom_data_sources, ds_source)
    THEN "KeyError: custom_data_sources"
    ELSE IF /\ trace_config.plot_type = "heatmap"
            /\ ~Contains(ds_source, trace_config.z_source)
    THEN "KeyError: z_source"
    ELSE NoError

(* "showlegend": i == 0 *)
ShowLegend(idx) == idx = 0

(* go.Heatmap(...) / go.Scatter(...); k is the trace's position in *)
(* config.traces + config.fit_traces                                *)
PlotlyTrace(trace_config, ds_source, idx, k) ==
    [type |-> IF trace_config.plot_type = "heatmap" THEN "heatmap" ELSE "scatter",
     x |-> Values(ds_source, trace_config.x_source),
     y |-> Values(ds_source, trace_config.y_source),
     z |-> IF trace_config.plot_type = "heatmap"
           THEN Values(ds_source, trace_config.z_source) ELSE << >>,
     mode |-> IF trace_config.plot_type = "heatmap" THEN None ELSE trace_config.mode,
     style |-> trace_config.style,
     name |-> trace_config.name,
     hovertemplate |-> trace_config.hover_template,
     customdata |-> CustomData(trace_config, ds_source),
     legendgroup |-> trace_config.name,
     showlegend |-> ShowLegend(idx),
     k |-> k]

(* The loop over config.traces + config.fit_traces for one cell, from     *)
(* position k on: the primitives added, and the error that ended it.      *)
RECURSIVE PlotlyTraces(_, _, _, _, _, _)
PlotlyTraces(cfg, ds_qubit_raw, ds_qubit_fit, idx, k, acc) ==
    IF k > Len(AllTraces(cfg))
    THEN [err |-> NoError, traces |-> acc]
    ELSE LET trace_config == AllTraces(cfg)[k]
             ds_source == DsSource(trace_config, cfg, ds_qubit_raw, ds_qubit_fit)
         IN IF PlotlySkips(trace_config, ds_source)
            THEN PlotlyTraces(cfg, ds_qubit_raw, ds_qubit_fit, idx, k + 1, acc)
            ELSE IF PlotlyTraceError(trace_config, ds_source) # NoError
            THEN [err |-> PlotlyTraceError(trace_config, ds_source), traces |-> acc]
            ELSE PlotlyTraces(cfg, ds_qubit_raw, ds_qubit_fit, idx, k + 1,
                     Append(acc, PlotlyTrace(trace_config, ds_source, idx, k)))

----------------------------------------------------------------------------
(* The state of one call: what the builder holds between two steps *)

Call(pc_, config_, grid_, i_, fig_, err_, n_sel_) ==
    [pc |-> pc_, config |-> config_, grid |-> grid_, i |-> i_, fig |-> fig_,
     err |-> err_, n_sel |-> n_sel_]

(* An exception leaves the call: no figure is returned *)
Raise(c, e) == [c EXCEPT !.pc = "raised", !.err = e, !.fig = << >>]

PanelHeight == 350
PanelWidth == 350
MinWidth == 800

(* go.Figure() *)
EmptyPlotlyFigure ==
    [kind |-> "plotly", n_rows |-> 0, n_cols |-> 0, subplot_titles |-> << >>,
     panels |-> << >>, title |-> << >>, legend |-> << >>, height |-> 0, width |-> 0]

(* f"Qubit {list(nd.values())[0]}" *)
QubitTitle(qubit_id) == <<"Qubit", qubit_id>>

(* make_subplots(rows, cols, subplot_titles): the k-th title names the k-th *)
(* panel in row-major order; panels start without traces or axis titles     *)
MakeSubplots(g) ==
    [kind |-> "plotly", n_rows |-> g.n_rows, n_cols |-> g.n_cols,
     subplot_titles |-> [k \in 1..Len(g.name_dicts) |-> QubitTitle(g.name_dicts[k])],
     panels |-> [p \in 1..(g.n_rows * g.n_cols) |->
                    [traces |-> << >>, xaxis |-> << >>, yaxis |-> << >>]],
     title |-> << >>, legend |-> << >>, height |-> 0, width |-> 0]

(* row = i // grid.n_rows + 1: the row computed from the wrong dimension *)
PlotlyRowByRows(idx, g) == (idx \div g.n_rows) + 1

(* row = i // grid.n_cols + 1 *)
PlotlyRow(idx, g) == (idx \div g.n_cols) + 1

(* col = i % grid.n_cols + 1 *)
PlotlyCol(idx, g) == (idx % g.n_cols) + 1

(* The panel a (row, col) pair names in the subplot grid, row-major *)
PanelAt(row, col, g) == (row - 1) * g.n_cols + col

(* fig.add_trace / update_xaxes(row=, col=) accept only cells of the grid *)
InGrid(row, col, g) == row \in 1..g.n_rows /\ col \in 1..g.n_cols

(* Lines 58-70: the early return, plot_configs[0], the grid, make_subplots *)
PlotlyEnter(cfgs, answer) ==
    LET c0 == Call("idle", << >>, << >>, 0, << >>, NoError, 0)
    IN IF NotPlotConfigs(cfgs)
       THEN [c0 EXCEPT !.pc = "done", !.fig = <<EmptyPlotlyFigure>>]
       ELSE IF FirstConfig(cfgs) = << >>
       THEN Raise(c0, "IndexError: plot_configs[0]")
       ELSE IF ~answer.ok
       THEN Raise([c0 EXCEPT !.config = FirstConfig(cfgs)], "grid layout failed")
       ELSE [c0 EXCEPT !.pc = "loop", !.config = FirstConfig(cfgs),
                       !.grid = <<answer>>, !.fig = <<MakeSubplots(answer)>>]

(* Lines 72-129: one iteration of the loop over plotly_grid_iter(grid) *)
PlotlyCell(c, raw, fit) ==
    LET g == c.grid[1]
        cfg == c.config[1]
        item == plotly_grid_iter(g)[c.i + 1]
        idx == item[1]
        qubit_id == item[2]
        row == PlotlyRow(idx, g)
        col == PlotlyCol(idx, g)
        p == PanelAt(row, col, g)
        nsel == c.n_sel + 1 + (IF fit.present THEN 1 ELSE 0)
        r == PlotlyTraces(cfg, Sel(raw, "raw", qubit_id), Sel(fit, "fit", qubit_id),
                          idx, 1, << >>)
    IN IF SelRaises(raw, qubit_id)
       THEN Raise([c EXCEPT !.n_sel = c.n_sel + 1], "KeyError: qubit")
       ELSE IF SelRaises(fit, qubit_id)
       THEN Raise([c EXCEPT !.n_sel = nsel], "KeyError: qubit")
       ELSE IF r.err # NoError
       THEN Raise([c EXCEPT !.n_sel = nsel], r.err)
       ELSE IF ~InGrid(row, col, g)
       THEN Raise([c EXCEPT !.n_sel = nsel], "ValueError: row/col outside the grid")
       ELSE [c EXCEPT !.i = c.i + 1, !.n_sel = nsel,
                      !.fig = <<[c.fig[1] EXCEPT !.panels[p] =
                                   [traces |-> @.traces \o r.traces,
                                    xaxis |-> cfg.layout.x_axis_title,
                                    yaxis |-> cfg.layout.y_axis_title]]>>]

(* height=350 * grid.n_rows *)
PlotlyHeight(g) == PanelHeight * g.n_rows

(* width=350 * grid.n_cols: the width without its minimum *)
PlotlyWidthNoMinimum(g) == PanelWidth * g.n_cols

(* width=max(800, 350 * grid.n_cols) *)
PlotlyWidth(g) ==
    IF PanelWidth * g.n_cols > MinWidth THEN PanelWidth * g.n_cols ELSE MinWidth

(* Lines 131-137: fig.update_layout(...) and the return *)
PlotlyFinish(c) ==
    [c EXCEPT !.pc = "done",
              !.fig = <<[c.fig[1] EXCEPT !.title = c.config[1].layout.title,
                                         !.legend = c.config[1].layout.legend,
                                         !.height = PlotlyHeight(c.grid[1]),
                                         !.width = PlotlyWidth(c.grid[1])]>>]

----------------------------------------------------------------------------
(* create_matplotlib_figure *)

BlankAxes == [lines |-> << >>, xlabel |-> << >>, ylabel |-> << >>, title |-> << >>]

(* plt.subplots(): a blank figure with a single axes *)
BlankMatplotlibFigure ==
    [kind |-> "matplotlib", suptitle |-> << >>, axes |-> <<BlankAxes>>,
     legend |-> FALSE, tight_layout |-> FALSE]

(* QubitGrid(...).fig with grid.fig.suptitle(config.layout.title): one axes *)
(* per entry of name_dicts, in iteration order                               *)
GridFigure(g, cfg) ==
    [kind |-> "matplotlib", suptitle |-> cfg.layout.title,
     axes |-> [k \in 1..Len(g.name_dicts) |-> BlankAxes],
     legend |-> FALSE, tight_layout |-> FALSE]

(* style.get(key, default) *)
StyleGet(style, key, default) ==
    IF style[key] = Absent THEN default ELSE style[key]

(* linestyle_map.get(dash, "-"): the solid line of the raw traces as default *)
LinestyleMapGetSolid(dash) ==
    CASE dash = "solid" -> "-"
      [] dash = "dot" -> ":"
      [] dash = "dash" -> "--"
      [] dash = "longdash" -> "-."
      [] dash = "dashdot" -> "-."
      [] OTHER -> "-"

(* linestyle_map.get(dash, "--") *)
LinestyleMapGet(dash) ==
    CASE dash = "solid" -> "-"
      [] dash = "dot" -> ":"
      [] dash = "dash" -> "--"
      [] dash = "longdash" -> "-."
      [] dash = "dashdot" -> "-."
      [] OTHER -> "--"

(* linestyle = linestyle_map.get(trace_config.style.get("dash"), "--") *)
Linestyle(trace_config) == LinestyleMapGet(StyleGet(trace_config.style, "dash", None))

(* color=trace_config.style.get("color", "red") *)
FitColor(trace_config) == StyleGet(trace_config.style, "color", "red")

(* label=trace_config.name if i == 0 else "" *)
Label(trace_config, idx) == IF idx = 0 THEN trace_config.name ELSE ""

(* trace_config.visible and all(s in ds for s in [x_source, y_source]) *)
MatplotlibDraws(trace_config, slice) ==
    /\ trace_config.visible
    /\ AllIn(<<trace_config.x_source, trace_config.y_source>>, slice)

(* ax.plot(raw x, raw y, marker='.', linestyle='-', label=...) *)
RawLine(trace_config, slice, idx, k) ==
    [x |-> Values(slice, trace_config.x_source),
     y |-> Values(slice, trace_config.y_source),
     marker |-> ".", linestyle |-> "-", label |-> Label(trace_config, idx),
     color |-> "cycle", k |-> k]

(* ax.plot(fit x, fit y, linestyle=linestyle, label=..., color=...) *)
FitLine(trace_config, slice, idx, k) ==
    [x |-> Values(slice, trace_config.x_source),
     y |-> Values(slice, trace_config.y_source),
     marker |-> None, linestyle |-> Linestyle(trace_config),
     label |-> Label(trace_config, idx),
     color |-> FitColor(trace_config), k |-> k]

(* Lines 163-170: the loop over config.traces from position k on *)
RECURSIVE RawLines(_, _, _, _, _)
RawLines(cfg, slice, idx, k, acc) ==
    IF k > Len(cfg.traces) THEN acc
    ELSE RawLines(cfg, slice, idx, k + 1,
            IF MatplotlibDraws(cfg.traces[k], slice)
            THEN Append(acc, RawLine(cfg.traces[k], slice, idx, k))
            ELSE acc)

(* Lines 173-186: if ds_qubit_fit, the loop over config.fit_traces *)
RECURSIVE FitLines(_, _, _, _, _)
FitLines(cfg, slice, idx, k, acc) ==
    IF ~Truthy(slice) \/ k > Len(cfg.fit_traces) THEN acc
    ELSE FitLines(cfg, slice, idx, k + 1,
            IF MatplotlibDraws(cfg.fit_traces[k], slice)
            THEN Append(acc, FitLine(cfg.fit_traces[k], slice, idx,
                                     Len(cfg.traces) + k))
            ELSE acc)

(* Lines 149-155: the early return, plot_configs[0], the grid, the suptitle *)
MatplotlibEnter(cfgs, answer) ==
    LET c0 == Call("idle", << >>, << >>, 0, << >>, NoError, 0)
    IN IF NotPlotConfigs(cfgs)
       THEN [c0 EXCEPT !.pc = "done", !.fig = <<BlankMatplotlibFigure>>]
       ELSE IF FirstConfig(cfgs) = << >>
       THEN Raise(c0, "IndexError: plot_configs[0]")
       ELSE IF ~answer.ok
       THEN Raise([c0 EXCEPT !.config = FirstConfig(cfgs)], "grid layout failed")
       ELSE [c0 EXCEPT !.pc = "loop", !.config = FirstConfig(cfgs),
                       !.grid = <<answer>>,
                       !.fig = <<GridFigure(answer, FirstConfig(cfgs)[1])>>]

(* Lines 157-190: one iteration of the loop over enumerate(grid_iter(grid)) *)
MatplotlibCell(c, raw, fit) ==
    LET g == c.grid[1]
        cfg == c.config[1]
        idx == c.i
        item == grid_iter(g)[c.i + 1]
        ax == item[1]
        qubit_id == item[2]
        nsel == c.n_sel + 1 + (IF fit.present THEN 1 ELSE 0)
        ds_qubit_raw == Sel(raw, "raw", qubit_id)
        ds_qubit_fit == Sel(fit, "fit", qubit_id)
    IN IF SelRaises(raw, qubit_id)
       THEN Raise([c EXCEPT !.n_sel = c.n_sel + 1], "KeyError: qubit")
       ELSE IF SelRaises(fit, qubit_id)
       THEN Raise([c EXCEPT !.n_sel = nsel], "KeyError: qubit")
       ELSE [c EXCEPT !.i = c.i + 1, !.n_sel = nsel,
                      !.fig = <<[c.fig[1] EXCEPT !.axes[ax] =
                          [lines |-> @.lines \o RawLines(cfg, ds_qubit_raw, idx, 1, << >>)
                                             \o FitLines(cfg, ds_qubit_fit, idx, 1, << >>),
                           xlabel |-> cfg.layout.x_axis_title,
                           ylabel |-> cfg.layout.y_axis_title,
                           title |-> QubitTitle(qubit_id)]]>>]

(* any(trace.name for trace in config.traces + config.fit_traces) *)
AnyName(cfg) == \E k \in 1..Len(AllTraces(cfg)) : AllTraces(cfg)[k].name # ""

(* Lines 192-196: the shared legend, tight_layout and the return *)
MatplotlibFinish(c) ==
    [c EXCEPT !.pc = "done",
              !.fig = <<[c.fig[1] EXCEPT !.legend = AnyName(c.config[1]),
                                         !.tight_layout = TRUE]>>]

----------------------------------------------------------------------------
(* The inputs of a call *)

Dashes == {Absent, "solid", "dot", "dash", "longdash", "dashdot", "dashdotdot"}

Styles ==
    {[color |-> Absent, dash |-> d] : d \in Dashes} \cup
    {[color |-> "blue", dash |-> d] : d \in {Absent, "dot"}}

BaseTrace == TraceConfig("scatter", None, "T", EmptyStyle, << >>, TRUE)

(* Traces that differ from BaseTrace in what decides skipping and drawing *)
DataTraces ==
    {BaseTrace,
     TraceConfig("scatter", None, "T", EmptyStyle, << >>, FALSE),
     TraceConfig("scatter", "z", "T", EmptyStyle, << >>, TRUE),
     TraceConfig("line", None, "", EmptyStyle, << >>, TRUE),
     TraceConfig("heatmap", "z", "T", EmptyStyle, << >>, TRUE),
     TraceConfig("heatmap", None, "T", EmptyStyle, << >>, TRUE),
     TraceConfig("scatter", None, "T", EmptyStyle, <<"c">>, TRUE)}

(* Traces that differ from BaseTrace in their style *)
StyledTraces == {TraceConfig("line", None, "F", st, << >>, TRUE) : st \in Styles}

RawTraceLists ==
    {<< >>} \cup {<<t>> : t \in DataTraces} \cup
    {<<BaseTrace, TraceConfig("heatmap", "z", "T", EmptyStyle, << >>, TRUE)>>}

FitTraceLists ==
    {<< >>, <<BaseTrace>>} \cup {<<t>> : t \in StyledTraces}

(* A second configuration, different from every first one *)
OtherConfig ==
    PlotConfig(LayoutConfig("L2"),
               <<TraceConfig("line", None, "U", EmptyStyle, << >>, TRUE)>>, << >>)

(* The lists of at most two configurations whose first one draws its raw *)
(* traces from raws and its fit traces from fits                         *)
PlotConfigLists(raws, fits) ==
    LET first == {PlotConfig(LayoutConfig("L1"), ts, fs) : ts \in raws, fs \in fits}
    IN {<< >>} \cup {<<c>> : c \in first} \cup {<<c, OtherConfig>> : c \in first}

FullSlice == {"x", "y", "z", "c"}
RawSlices == {FullSlice, {"y", "z", "c"}, {"x", "y"}}
FitSlices == {FullSlice, {}}

RawDatasets(n, slices) == {Dataset(sl) : sl \in [1..n -> slices]}
FitDatasets(n, slices) == {NoDataset} \cup {Dataset(sl) : sl \in [1..n -> slices]}

(* The orders in which the provider may list n qubits: as given, or reversed *)
Orders(n) == {[k \in 1..n |-> k], [k \in 1..n |-> n + 1 - k]}

(* The provider's answers for n qubits: a rectangle with room for all of    *)
(* them; no layout for an empty qubit list                                  *)
GridAnswers(n) ==
    IF n = 0
    THEN {[ok |-> FALSE, n_rows |-> 0, n_cols |-> 0, name_dicts |-> << >>]}
    ELSE {a \in [ok : {TRUE}, n_rows : 1..MaxRows, n_cols : 1..MaxCols,
                 name_dicts : Orders(n)] : a.n_rows * a.n_cols >= n}

InitWith(n, cfgs, raw_slices, fit_slices, answers) ==
    /\ qubits = [k \in 1..n |-> k]
    /\ ds_raw \in (IF n = 0 THEN {Dataset(<< >>), DatasetWithoutQubit}
                            ELSE RawDatasets(n, raw_slices))
    /\ ds_fit \in FitDatasets(n, fit_slices)
    /\ layout_in \in answers
    /\ plot_configs \in cfgs
    /\ builder = "none"
    /\ pc = "idle"
    /\ config = << >>
    /\ grid = << >>
    /\ i = 0
    /\ fig = << >>
    /\ err = NoError
    /\ n_sel = 0

(* Every trace and slice of the catalogue on up to MaxQubits qubits, and a *)
(* single named raw trace on MaxLegendQubits qubits in one row             *)
Init ==
    \/ \E n \in 0..MaxQubits :
          InitWith(n, PlotConfigLists(RawTraceLists, FitTraceLists),
                   RawSlices, FitSlices, GridAnswers(n))
    \/ InitWith(MaxLegendQubits, PlotConfigLists({<<BaseTrace>>}, {<< >>}),
                {FullSlice, {"y", "z", "c"}}, {FullSlice},
                {a \in GridAnswers(MaxLegendQubits) : a.n_rows = 1})

(* The styled fit traces over the base raw traces, on up to MaxQubits qubits *)
InitFigure ==
    \E n \in 0..MaxQubits :
        InitWith(n, PlotConfigLists({<< >>, <<BaseTrace>>}, FitTraceLists),
                 {FullSlice, {"y", "z", "c"}}, FitSlices, GridAnswers(n))

----------------------------------------------------------------------------
(* The steps of a call *)

Current == Call(pc, config, grid, i, fig, err, n_sel)

Becomes(c) ==
    /\ pc' = c.pc
    /\ config' = c.config
    /\ grid' = c.grid
    /\ i' = c.i
    /\ fig' = c.fig
    /\ err' = c.err
    /\ n_sel' = c.n_sel

CreatePlotlyFigure ==
    /\ pc = "idle"
    /\ builder' = "plotly"
    /\ Becomes(PlotlyEnter(plot_configs, layout_in))
    /\ UNCHANGED inputs

PlotlyLoop ==
    /\ builder = "plotly"
    /\ pc = "loop"
    /\ i < Len(grid[1].name_dicts)
    /\ Becomes(PlotlyCell(Current, ds_raw, ds_fit))
    /\ UNCHANGED <<inputs, builder>>

PlotlyReturn ==
    /\ builder = "plotly"
    /\ pc = "loop"
    /\ i >= Len(grid[1].name_dicts)
    /\ Becomes(PlotlyFinish(Current))
    /\ UNCHANGED <<inputs, builder>>

CreateMatplotlibFigure ==
    /\ pc = "idle"
    /\ builder' = "matplotlib"
    /\ Becomes(MatplotlibEnter(plot_configs, layout_in))
    /\ UNCHANGED inputs

MatplotlibLoop ==
    /\ builder = "matplotlib"
    /\ pc = "loop"
    /\ i < Len(grid[1].name_dicts)
    /\ Becomes(MatplotlibCell(Current, ds_raw, ds_fit))
    /\ UNCHANGED <<inputs, builder>>

MatplotlibReturn ==
    /\ builder = "matplotlib"
    /\ pc = "loop"
    /\ i >= Len(grid[1].name_dicts)
    /\ Becomes(MatplotlibFinish(Current))
    /\ UNCHANGED <<inputs, builder>>

Next ==
    \/ CreatePlotlyFigure
    \/ PlotlyLoop
    \/ PlotlyReturn
    \/ CreateMatplotlibFigure
    \/ MatplotlibLoop
    \/ MatplotlibReturn

Spec == Init /\ [][Next]_vars

SpecFigure == InitFigure /\ [][Next]_vars

----------------------------------------------------------------------------
(* The two builders as functions of their arguments: the steps above run  *)
(* to the return or to the exception                                      *)

RECURSIVE PlotlyRun(_, _, _)
PlotlyRun(c, raw, fit) ==
    IF c.pc # "loop" THEN c
    ELSE IF c.i < Len(c.grid[1].name_dicts)
    THEN PlotlyRun(PlotlyCell(c, raw, fit), raw, fit)
    ELSE PlotlyFinish(c)

create_plotly_figure(raw, answer, cfgs, fit) ==
    PlotlyRun(PlotlyEnter(cfgs, answer), raw, fit)

RECURSIVE MatplotlibRun(_, _, _)
MatplotlibRun(c, raw, fit) ==
    IF c.pc # "loop" THEN c
    ELSE IF c.i < Len(c.grid[1].name_dicts)
    THEN MatplotlibRun(MatplotlibCell(c, raw, fit), raw, fit)
    ELSE MatplotlibFinish(c)

create_matplotlib_figure(raw, answer, cfgs, fit) ==
    MatplotlibRun(MatplotlibEnter(cfgs, answer), raw, fit)

(* What the caller sees: the figure returned or the exception raised *)
Outcome(c) == [pc |-> c.pc, fig |-> c.fig, err |-> c.err]

----------------------------------------------------------------------------
(* Vocabulary of the properties *)

Returned == pc = "done" /\ plot_configs # << >>
PlotlyReturned == builder = "plotly" /\ Returned
MatplotlibReturned == builder = "matplotlib" /\ Returned

(* The cells of the grid, the k-th holding the k-th qubit of name_dicts *)
Cells == 1..Len(layout_in.name_dicts)
QubitOf(k) == layout_in.name_dicts[k]

(* The slice a trace is meant to be resolved against: the raw slice for a *)
(* trace of config.traces (positions 1..Len(traces) of the concatenation), *)
(* the fit slice for a trace of config.fit_traces                          *)
IsRawPosition(cfg, j) == j <= Len(cfg.traces)
OwnSlice(cfg, j, q) ==
    IF IsRawPosition(cfg, j) THEN Sel(ds_raw, "raw", q) ELSE Sel(ds_fit, "fit", q)

(* The primitives of cell k in the returned figure *)
PrimitivesOf(k) ==
    IF builder = "plotly" THEN fig[1].panels[k].traces ELSE fig[1].axes[k].lines

(* Cell k holds a primitive drawn for the trace at position j *)
DrawnIn(k, j) ==
    \E n \in 1..Len(PrimitivesOf(k)) : PrimitivesOf(k)[n].k = j

----------------------------------------------------------------------------
ResolvableIn(trace_config, slice) ==
    /\ trace_config.visible
    /\ slice.present
    /\ AllIn(RequiredSources(trace_config), slice)

(* C1: in the figure create_plotly_figure returns, every primitive drawn   *)
(* for a trace of config.traces carries raw data and every primitive drawn *)
(* for a trace of config.fit_traces carries fit data, and each panel holds *)
(* as many primitives as there are visible raw traces whose required       *)
(* fields are in the raw slice plus visible fit traces whose required      *)
(* fields are in the fit slice - also when a raw trace equals a fit trace. *)
C1_RawFitSeparate ==
    PlotlyReturned =>
        \A k \in Cells :
            LET cfg == plot_configs[1]
                prims == PrimitivesOf(k)
            IN /\ \A n \in 1..Len(prims) :
                      prims[n].x[1] = (IF IsRawPosition(cfg, prims[n].k)
                                       THEN "raw" ELSE "fit")
               /\ Len(prims) =
                      Cardinality({j \in 1..Len(AllTraces(cfg)) :
                          ResolvableIn(AllTraces(cfg)[j], OwnSlice(cfg, j, QubitOf(k)))})

(* C2: create_plotly_figure never raises when the qubits can be laid out:  *)
(* absent data (no fit dataset, a missing x/y/z or custom-data field, a    *)
(* heatmap without z_source) only skips the trace.                         *)
C2_AbsentDataNeverRaises ==
    (builder = "plotly" /\ layout_in.ok) => pc # "raised"

LabelsOf(k, j) ==
    {PrimitivesOf(k)[n].label :
        n \in {m \in 1..Len(PrimitivesOf(k)) : PrimitivesOf(k)[m].k = j}}

(* C3: in the figure create_matplotlib_figure returns, a raw trace with a  *)
(* non-empty name that is drawn in more than one panel is labelled with    *)
(* its name in the first panel and with "" in every other panel.           *)
C3_LegendLabelOnce ==
    MatplotlibReturned =>
        \A j \in 1..Len(plot_configs[1].traces) :
            LET name == plot_configs[1].traces[j].name
            IN (name # "" /\ Cardinality({k \in Cells : DrawnIn(k, j)}) > 1) =>
                  /\ LabelsOf(1, j) = {name}
                  /\ \A k \in Cells \ {1} : LabelsOf(k, j) \subseteq {""}

(* The dataset with x and y added to qubit q's slice *)
Completed(ds, q) == [ds EXCEPT !.slices[q] = @ \cup {"x", "y"}]

(* The running builder applied to other datasets *)
Build(raw, fit) ==
    IF builder = "plotly"
    THEN create_plotly_figure(raw, layout_in, plot_configs, fit)
    ELSE create_matplotlib_figure(raw, layout_in, plot_configs, fit)

(* Cell k has the same primitives, axis titles and panel title in f1 and f2 *)
SamePanel(f1, f2, k) ==
    IF f1.kind = "plotly"
    THEN f1.panels[k] = f2.panels[k] /\ f1.subplot_titles[k] = f2.subplot_titles[k]
    ELSE f1.axes[k] = f2.axes[k]

(* The panels of the qubits other than q are what the builder returns for *)
(* them when x and y are present in q's raw (or fit) slice                *)
OthersUnaffected(q) ==
    \A alt \in {Build(Completed(ds_raw, q), ds_fit)} \cup
               (IF ds_fit.present THEN {Build(ds_raw, Completed(ds_fit, q))} ELSE {}) :
        alt.pc = "done" =>
            \A k \in Cells : QubitOf(k) # q => SamePanel(fig[1], alt.fig[1], k)

(* C4: in the figure either builder returns, a visible trace whose         *)
(* x_source or y_source is absent from a qubit's slice has no primitive in *)
(* that qubit's panel, and the primitives, axis titles and panel title of  *)
(* every other qubit's panel are what they are when the field is present.  *)
C4_SkipIsolation ==
    Returned =>
        \A k \in Cells :
            LET cfg == plot_configs[1]
            IN /\ \A j \in 1..Len(AllTraces(cfg)) :
                      LET t == AllTraces(cfg)[j]
                          slice == OwnSlice(cfg, j, QubitOf(k))
                      IN (t.visible /\ ~AllIn(<<t.x_source, t.y_source>>, slice))
                            => ~DrawnIn(k, j)
               /\ OthersUnaffected(QubitOf(k))

(* C9: in create_plotly_figure a visible scatter or line trace whose       *)
(* x_source and y_source are in its source slice is drawn whatever its     *)
(* z_source, and a visible heatmap trace whose z_source is not a field of  *)
(* the slice (or is unset) is skipped without failing the call.            *)
C9_ZRequiredOnlyForHeatmap ==
    builder = "plotly" =>
        /\ err # "KeyError: z_source"
        /\ Returned =>
              \A k \in Cells :
                  LET cfg == plot_configs[1]
                  IN \A j \in 1..Len(AllTraces(cfg)) :
                        LET t == AllTraces(cfg)[j]
                            src == DsSource(t, cfg, Sel(ds_raw, "raw", QubitOf(k)),
                                            Sel(ds_fit, "fit", QubitOf(k)))
                        IN /\ ( /\ t.visible
                                /\ t.plot_type # "heatmap"
                                /\ src.present
                                /\ AllIn(<<t.x_source, t.y_source>>, src) )
                              => DrawnIn(k, j)
                           /\ (t.plot_type = "heatmap" /\ ~Contains(src, t.z_source))
                              => ~DrawnIn(k, j)

----------------------------------------------------------------------------
(* C5: for a non-empty plot_configs, what either builder returns (or       *)
(* raises) is what it returns for the one-element list [plot_configs[0]]   *)
(* with the same ds_raw, qubits and ds_fit.                                *)
C5_OnlyFirstConfig ==
    (pc \in {"done", "raised"} /\ plot_configs # << >>) =>
        Outcome(Current) =
            Outcome(IF builder = "plotly"
                    THEN create_plotly_figure(ds_raw, layout_in,
                                              <<plot_configs[1]>>, ds_fit)
                    ELSE create_matplotlib_figure(ds_raw, layout_in,
                                                  <<plot_configs[1]>>, ds_fit))

(* A figure with a drawn primitive, returned for a list of two different *)
(* configurations                                                        *)
C5_Witness ==
    /\ PlotlyReturned
    /\ Len(plot_configs) = 2
    /\ plot_configs[1] # plot_configs[2]
    /\ \E k \in Cells : PrimitivesOf(k) # << >>

(* C6: for an empty plot_configs both builders return their blank figure, *)
(* without raising, constructing a grid or selecting a data slice,         *)
(* whatever ds_raw, qubits and ds_fit are.                                 *)
C6_EmptyConfigs ==
    (plot_configs = << >> /\ builder # "none") =>
        /\ pc = "done"
        /\ err = NoError
        /\ grid = << >>
        /\ n_sel = 0
        /\ fig = <<IF builder = "plotly" THEN EmptyPlotlyFigure
                                          ELSE BlankMatplotlibFigure>>

(* The blank figure returned for no qubits and a dataset without a qubit *)
(* coordinate                                                            *)
C6_Witness ==
    /\ plot_configs = << >>
    /\ builder = "matplotlib"
    /\ pc = "done"
    /\ qubits = << >>
    /\ ds_raw = DatasetWithoutQubit

DashTable ==
    {<<"solid", "-">>, <<"dot", ":">>, <<"dash", "--">>, <<"longdash", "-.">>,
     <<"dashdot", "-.">>}

(* C7: in the figure create_matplotlib_figure returns, every line drawn    *)
(* for a fit trace has the linestyle solid -> '-', dot -> ':', dash ->     *)
(* '--', longdash -> '-.', dashdot -> '-.' of its style's dash, '--' when  *)
(* the style has no dash or another one, and the colour of its style,      *)
(* 'red' when the style has none.                                          *)
C7_DashStyle ==
    MatplotlibReturned =>
        \A k \in Cells : \A n \in 1..Len(PrimitivesOf(k)) :
            LET cfg == plot_configs[1]
                line == PrimitivesOf(k)[n]
                style == cfg.fit_traces[line.k - Len(cfg.traces)].style
            IN ~IsRawPosition(cfg, line.k) =>
                  /\ \A pair \in DashTable :
                        style.dash = pair[1] => line.linestyle = pair[2]
                  /\ (\A pair \in DashTable : style.dash # pair[1])
                        => line.linestyle = "--"
                  /\ style.color # Absent => line.color = style.color
                  /\ style.color = Absent => line.color = "red"

(* A fit line drawn with a dash style outside the mapping and no colour *)
C7_Witness ==
    /\ MatplotlibReturned
    /\ \E k \in Cells : \E n \in 1..Len(PrimitivesOf(k)) :
          LET cfg == plot_configs[1]
              line == PrimitivesOf(k)[n]
          IN /\ ~IsRawPosition(cfg, line.k)
             /\ cfg.fit_traces[line.k - Len(cfg.traces)].style.dash = "dashdotdot"
             /\ line.linestyle = "--"
             /\ line.color = "red"

(* C8: the figure create_plotly_figure returns for a non-empty             *)
(* plot_configs has height 350 * n_rows and width max(800, 350 * n_cols),  *)
(* whatever was drawn or skipped.                                          *)
C8_Dimensions ==
    PlotlyReturned =>
        /\ layout_in.n_rows >= 1 /\ layout_in.n_cols >= 1
        /\ fig[1].height = 350 * layout_in.n_rows
        /\ fig[1].width >= 800
        /\ fig[1].width >= 350 * layout_in.n_cols
        /\ fig[1].width \in {800, 350 * layout_in.n_cols}

(* The 2 x 3 grid: height 700, width 1050 *)
C8_Witness ==
    /\ PlotlyReturned
    /\ layout_in.n_rows = 2 /\ layout_in.n_cols = 3
    /\ fig[1].height = 700 /\ fig[1].width = 1050

(* C10: while create_plotly_figure runs and when it returns, the subplot   *)
(* grid has n_rows * n_cols panels, every pair (i, name_dict) of the grid  *)
(* iteration is placed at a row in 1..n_rows and a column in 1..n_cols,    *)
(* different qubits at different places, every primitive lies in the panel *)
(* titled "Qubit <id>" for the qubit whose data it carries, and the panels *)
(* that got their axis titles are those of the cells already visited.      *)
C10_PanelAssignment ==
    (builder = "plotly" /\ pc \in {"loop", "done"} /\ plot_configs # << >>) =>
        LET g == grid[1]
            f == fig[1]
            place(k) == <<PlotlyRow(plotly_grid_iter(g)[k][1], g),
                          PlotlyCol(plotly_grid_iter(g)[k][1], g)>>
        IN /\ Len(f.panels) = g.n_rows * g.n_cols
           /\ \A k \in 1..Len(g.name_dicts) :
                 /\ 1 <= place(k)[1] /\ place(k)[1] <= g.n_rows
                 /\ 1 <= place(k)[2] /\ place(k)[2] <= g.n_cols
           /\ \A k1, k2 \in 1..Len(g.name_dicts) :
                 k1 # k2 => place(k1) # place(k2)
           /\ \A p \in 1..Len(f.panels) : \A n \in 1..Len(f.panels[p].traces) :
                 /\ p <= Len(f.subplot_titles)
                 /\ f.subplot_titles[p] = <<"Qubit", f.panels[p].traces[n].x[2]>>
           /\ \A p \in 1..Len(f.panels) : (f.panels[p].xaxis # << >>) <=> (p <= i)

(* Two qubits listed in reverse order on a 2 x 3 grid, each with a primitive *)
(* in its panel                                                              *)
C10_Witness ==
    /\ PlotlyReturned
    /\ layout_in.n_rows = 2 /\ layout_in.n_cols = 3
    /\ layout_in.name_dicts = <<2, 1>>
    /\ fig[1].panels[1].traces # << >>
    /\ fig[1].panels[2].traces # << >>
    /\ fig[1].panels[1].traces[1].x[2] = 2

====
